---- MODULE Spec2Model ----
(***************************************************************************)
(* A model of notify_to_cisco_webex: the Webex client (attachment          *)
(* resolution, request construction, batching in Webex.send) and the CLI   *)
(* entry point main (configuration precedence, exit codes).                *)
(*                                                                         *)
(* Strings.  A Python str that the code inspects character by character    *)
(* (the destination, an attachment reference, the message format) is a     *)
(* sequence of one-character strings.  A str the code only passes along    *)
(* (the token, the message text, a response body) is a one-element         *)
(* sequence holding the whole text.  "" is <<>> and None is <<"None">>.    *)
(***************************************************************************)
EXTENDS Integers, Sequences, FiniteSets, TLC

VARIABLES
    config,     \* self.config of the client
    closed,     \* TRUE once self._client.close() has run
    pc,         \* where the program is
    message,    \* send's parameter `message`
    files,      \* send's parameter `files`, as passed
    prepared,   \* send's local `prepared`
    results,    \* send's local `results`
    net,        \* the HTTP requests the call has put on the network, in order
    outcome,    \* how the last send call ended
    openAtCall, \* whether self._client was still open when the call began
    argv,       \* main: the parsed command line (argparse's Namespace)
    osenv,      \* main: the process environment main is started in
    dotenv,     \* main: what the .env file defines
    environ,    \* main: os.environ
    exit        \* main: how main ended

\* the state of the CLI entry point
mainVars == <<argv, osenv, dotenv, environ, exit>>

vars ==
    <<config, closed, pc, message, files, prepared, results, net, outcome, openAtCall,
      mainVars>>

----------------------------------------------------------------------------
(* Bounds *)

\* the longest attachment list passed to send
MaxFiles == 3

----------------------------------------------------------------------------
(* Python values *)

None == <<"None">>

\* bool(x) of an Optional[str]
Truthy(x) == x # None /\ x # <<>>

\* `a or b`
Or(a, b) == IF Truthy(a) THEN a ELSE b

\* `c in s`
HasChar(s, c) == \E i \in DOMAIN s : s[i] = c

\* s.startswith(p)
StartsWith(s, p) == Len(s) >= Len(p) /\ SubSeq(s, 1, Len(p)) = p

\* s.endswith(p)
EndsWith(s, p) == Len(s) >= Len(p) /\ SubSeq(s, Len(s) - Len(p) + 1, Len(s)) = p

SetMax(S) == CHOOSE x \in S : \A y \in S : y <= x

\* Path(p).name : the part after the last "/"
PathName(p) ==
    LET slashes == {i \in DOMAIN p : p[i] = "/"}
    IN  IF slashes = {} THEN p ELSE SubSeq(p, SetMax(slashes) + 1, Len(p))

Http == <<"h", "t", "t", "p", ":", "/", "/">>
Https == <<"h", "t", "t", "p", "s", ":", "/", "/">>

Markdown == <<"m", "a", "r", "k", "d", "o", "w", "n">>
Text == <<"t", "e", "x", "t">>

ImagePng == <<"image/png">>
OctetStream == <<"application/octet-stream">>

\* mimetypes.guess_type(filename)[0], for the one suffix the model's names use
GuessType(filename) ==
    IF EndsWith(filename, <<".", "p", "n", "g">>) THEN ImagePng ELSE None

----------------------------------------------------------------------------
(* The values the model draws its inputs from *)

Token == <<"secret-token">>

DstRoom == <<"r", "1">>
DstRoomSpace == <<"r", " ", "1">>
DstEmail == <<"u", "@", "x">>
DstAtSpace == <<"u", " ", "@", "x">>
Destinations == {DstRoom, DstRoomSpace, DstEmail, DstAtSpace}

Hi == <<"hi">>
Messages == {None, <<>>, Hi}

\* dataclass File
File(filename, mime_type, blob) ==
    [kind |-> "File", filename |-> filename, mime_type |-> mime_type, blob |-> blob]

\* create_file_from_bytes(filename, blob, mime_type): any content is taken, the
\* type is guessed from the name when none is given
create_file_from_bytes(filename, blob, mime_type) ==
    File(filename, IF mime_type = None THEN GuessType(filename) ELSE mime_type, blob)

FileA == File(<<"a", ".", "p", "n", "g">>, ImagePng, <<1>>)
FileB == File(<<"b">>, None, <<2>>)
\* an attachment made from no bytes at all
FileEmpty == create_file_from_bytes(<<"e">>, <<>>, None)

\* a str item of the files list
Str(s) == [kind |-> "str", s |-> s]

PathP == <<"d", "/", "p", ".", "p", "n", "g">>
PathQ == <<"q">>
UrlU == Http \o <<"h", "/", "u">>

\* an item that is neither a File nor a str
IntItem == [kind |-> "int"]

\* the local filesystem: the paths that exist, and their content
ExistingPaths == {PathP}
ReadBytes(p) == <<3>>

Items == {FileA, FileB, FileEmpty, Str(PathP), Str(PathQ), Str(UrlU), IntItem}

RECURSIVE ListsOver(_, _)
\* the lists of at most n distinct items of S
ListsOver(S, n) ==
    IF n = 0 THEN {<<>>}
    ELSE LET shorter == ListsOver(S, n - 1)
             longest == {l \in shorter : Len(l) = n - 1}
         IN  shorter \cup
             {Append(p[1], p[2]) :
                 p \in {q \in longest \X S : \A i \in DOMAIN q[1] : q[1][i] # q[2]}}

\* `files` not given: the parameter keeps its default, None
NoneFiles == <<[kind |-> "None"]>>
FileLists == {NoneFiles} \cup ListsOver(Items, MaxFiles)

\* the configurations a client can be constructed with: WebexConfig.__post_init__
\* and Webex.__init__ have accepted them
WebexConfig(token, dst, msg_format, timeout, insecure, verbose, proxy) ==
    [token |-> token, dst |-> dst, msg_format |-> msg_format, timeout |-> timeout,
     insecure |-> insecure, verbose |-> verbose, proxy |-> proxy]

DefaultTimeout == 10

LibConfig(dst, msg_format) ==
    WebexConfig(Token, dst, msg_format, DefaultTimeout, FALSE, FALSE, None)

LibConfigs == {LibConfig(d, f) : d \in Destinations, f \in {Text, Markdown}}

----------------------------------------------------------------------------
(* The network: what the far end may answer *)

Statuses == {200, 400, 500}

\* what comes back for a POST to the messages endpoint: a response (its body is
\* JSON or is not), or no response at all (a transport failure)
PostReplies ==
    [kind : {"response"}, status : Statuses, json : BOOLEAN]
        \cup {[kind |-> "transport_error"]}

\* what comes back for the GET of a URL attachment
GetReplies ==
    [kind : {"response"}, status : {200, 404}, content : {<<>>, <<7>>}]
        \cup {[kind |-> "transport_error"]}

\* the body text of the n-th response of a call: the far end gives every
\* message it answers about an id of its own
BodyText(reply, n) == <<IF reply.json THEN "json" ELSE "text", n>>

----------------------------------------------------------------------------
(* Exceptions *)

ValueError(msg) == [type |-> "ValueError", msg |-> msg]
FileNotFoundError(path) == [type |-> "FileNotFoundError", path |-> path]
RuntimeError(msg) == [type |-> "RuntimeError", msg |-> msg]
\* RuntimeError(f"Webex API returned {status}: {body}")
ApiError(status, body) ==
    [type |-> "RuntimeError", msg |-> "Webex API returned", status |-> status,
     body |-> body]
\* httpx.Client refuses to send once it has been closed
ClientClosedError == RuntimeError("Cannot send a request, as the client has been closed.")
\* httpx.HTTPStatusError out of raise_for_status()
HTTPStatusError(status) == [type |-> "HTTPStatusError", status |-> status]
\* httpx.TransportError (connection, DNS, TLS, timeout)
TransportError == [type |-> "TransportError"]

Returned(v) == [raised |-> FALSE, value |-> v]
Raised(e) == [raised |-> TRUE, exc |-> e]

----------------------------------------------------------------------------
(* Attachment helper methods *)

\* a variant that stands a placeholder in for a file it does not find
CreateFileFromPathLenient(path) ==
    IF path \notin ExistingPaths
    THEN Returned(File(PathName(path), None, <<0>>))
    ELSE Returned(File(PathName(path), GuessType(PathName(path)), ReadBytes(path)))

create_file_from_path(path) ==
    IF path \notin ExistingPaths
    THEN Raised(FileNotFoundError(path))
    ELSE Returned(File(PathName(path), GuessType(PathName(path)), ReadBytes(path)))

\* urlparse(url).path : what follows the host
UrlPath(url) ==
    LET rest == IF StartsWith(url, Https) THEN SubSeq(url, Len(Https) + 1, Len(url))
                ELSE SubSeq(url, Len(Http) + 1, Len(url))
        slashes == {i \in DOMAIN rest : rest[i] = "/"}
    IN  IF slashes = {} THEN <<>>
        ELSE SubSeq(rest, CHOOSE i \in slashes : \A j \in slashes : i <= j, Len(rest))

\* the GET of create_file_from_url: [call |-> its result, sent |-> whether a
\* request went out].  The modelled responses carry no content-disposition and
\* no content-type header.
create_file_from_url(url, isClosed, reply) ==
    IF ~(StartsWith(url, Http) \/ StartsWith(url, Https))
    THEN [call |-> Raised(ValueError("Unsupported URL scheme for file")), sent |-> FALSE]
    ELSE IF isClosed
    THEN [call |-> Raised(ClientClosedError), sent |-> FALSE]
    ELSE IF reply.kind = "transport_error"
    THEN [call |-> Raised(TransportError), sent |-> TRUE]
    ELSE IF reply.status >= 400
    THEN [call |-> Raised(HTTPStatusError(reply.status)), sent |-> TRUE]
    ELSE LET name == PathName(UrlPath(url))
             filename == IF name = <<>> THEN None ELSE name
         IN  [call |-> Returned(File(filename, None, reply.content)), sent |-> TRUE]

----------------------------------------------------------------------------
(* Core send logic *)

\* a variant that also wants the destination free of whitespace
BuildTargetFieldsNoSpace(cfg) ==
    IF HasChar(cfg.dst, "@") /\ ~HasChar(cfg.dst, " ")
    THEN [toPersonEmail |-> cfg.dst]
    ELSE [roomId |-> cfg.dst]

_build_target_fields(cfg) ==
    IF HasChar(cfg.dst, "@")
    THEN [toPersonEmail |-> cfg.dst]
    ELSE [roomId |-> cfg.dst]

\* a variant with the two field names exchanged
MessageFieldsSwapped(cfg, text) ==
    LET fields == _build_target_fields(cfg)
    IN  IF Truthy(text)
        THEN IF cfg.msg_format = Markdown
             THEN [text |-> text] @@ fields
             ELSE [markdown |-> text] @@ fields
        ELSE fields

\* the `fields` dict of _send_single: the target fields, and the message under
\* the name the format selects
MessageFields(cfg, text) ==
    LET fields == _build_target_fields(cfg)
    IN  IF Truthy(text)
        THEN IF cfg.msg_format = Markdown
             THEN [markdown |-> text] @@ fields
             ELSE [text |-> text] @@ fields
        ELSE fields

\* file_item = None
NoFile == [kind |-> "None"]

\* a variant that attaches nothing
FilesPayloadNone(file_item) == <<>>

\* `files_payload`, as the list of its parts: none, or the one `files` part
FilesPayload(file_item) ==
    IF file_item = NoFile
    THEN <<>>
    ELSE <<[name |-> "files",
            filename |-> Or(file_item.filename, <<"file">>),
            content |-> file_item.blob,
            content_type |-> Or(file_item.mime_type, OctetStream)]>>

\* a variant that sends the fields form-encoded whether or not a file goes along
PostRequestAsForm(cfg, fields, files_payload) ==
    [method |-> "POST", url |-> "https://webexapis.com/v1/messages",
     authorization |-> <<"Bearer ">> \o cfg.token,
     encoding |-> IF files_payload # <<>> THEN "multipart" ELSE "form",
     fields |-> fields,
     files |-> files_payload,
     proxy |-> cfg.proxy]

\* the request self._client.post(...) puts on the wire
PostRequest(cfg, fields, files_payload) ==
    [method |-> "POST", url |-> "https://webexapis.com/v1/messages",
     authorization |-> <<"Bearer ">> \o cfg.token,
     encoding |-> IF files_payload # <<>> THEN "multipart" ELSE "json",
     fields |-> fields,
     files |-> files_payload,
     proxy |-> cfg.proxy]

\* a variant that lets client errors through
RaisesForServerError(status) == status >= 500

\* resp.raise_for_status() raises
RaisesForStatus(status) == status >= 400

\* resp.json(), or the fallback when the body does not parse
DecodeResponse(status, body, isJson) ==
    IF isJson THEN [id |-> body] ELSE [status_code |-> status, text |-> body]

\* a variant that swallows the failure and returns an empty dict
OnHTTPErrorSwallowed == Returned([status_code |-> 0, text |-> None])

\* `except httpx.HTTPError`: the failure leaves as a RuntimeError
OnHTTPError == Raised(RuntimeError("HTTP error when sending to Webex"))

\* a variant that sends an attachment whatever its content
NoContentNever(file_item) == FALSE

\* `not file_item.blob`
NoContent(file_item) == file_item.blob = <<>>

\* _send_single(text, file_item) on a client that is closed or not, the far end
\* answering `reply` with body text `body`:
\* [call |-> its result, wire |-> the exchanges it put on the network]
_send_single(cfg, isClosed, text, file_item, reply, body) ==
    LET fields == MessageFields(cfg, text)
        files_payload == FilesPayload(file_item)
        request == PostRequest(cfg, fields, files_payload)
    IN  IF file_item # NoFile /\ NoContent(file_item)
        THEN [call |-> Raised(RuntimeError("File has no content")), wire |-> <<>>]
        ELSE IF isClosed
        THEN [call |-> Raised(ClientClosedError), wire |-> <<>>]
        ELSE IF reply.kind = "transport_error"
        THEN [call |-> OnHTTPError,
              wire |-> <<[request |-> request, response |-> [kind |-> "none"]]>>]
        ELSE LET response == [kind |-> "response", status |-> reply.status,
                              text |-> body, json |-> reply.json]
                 exchange == <<[request |-> request, response |-> response]>>
             IN  IF RaisesForStatus(reply.status)
                 THEN [call |-> Raised(ApiError(reply.status, body)), wire |-> exchange]
                 ELSE [call |-> Returned(DecodeResponse(reply.status, body, reply.json)),
                       wire |-> exchange]

----------------------------------------------------------------------------
(* Webex.send, step by step *)

NoOutcome == [kind |-> "none"]
\* send returned one response dict
ReturnedDict(res) == [kind |-> "return", shape |-> "dict", value |-> res]
\* send returned the list `results`
ReturnedList(rs) == [kind |-> "return", shape |-> "list", value |-> rs]
SendRaised(e) == [kind |-> "raise", exc |-> e]

\* the POST exchanges among those on the network
Posts(wire) == SelectSeq(wire, LAMBDA x : x.request.method = "POST")

\* `files or []`
FilesOrEmpty(f) == IF f = NoneFiles \/ f = <<>> THEN <<>> ELSE f

\* the caller calls client.send(message, files)
CallSend(m, f) ==
    /\ pc = "idle"
    /\ message' = m
    /\ files' = f
    /\ prepared' = <<>>
    /\ results' = <<>>
    /\ net' = <<>>
    /\ outcome' = NoOutcome
    /\ openAtCall' = ~closed
    /\ pc' = "normalize"
    /\ UNCHANGED <<config, closed, mainVars>>

\* the caller has the outcome of the call, and is free to call again
TakeOutcome ==
    /\ pc = "done"
    /\ pc' = "idle"
    /\ message' = None
    /\ files' = NoneFiles
    /\ prepared' = <<>>
    /\ results' = <<>>
    /\ net' = <<>>
    /\ outcome' = NoOutcome
    /\ openAtCall' = ~closed
    /\ UNCHANGED <<config, closed, mainVars>>

\* the exchange a GET for `url` leaves on the network
GetExchange(url, reply) ==
    [request |-> [method |-> "GET", url |-> url],
     response |-> IF reply.kind = "response"
                  THEN [kind |-> "response", status |-> reply.status]
                  ELSE [kind |-> "none"]]

\* one turn of the `for item in files` loop: what it yields for `item`
NormalizeOne(item, isClosed, reply) ==
    IF item.kind = "File"
    THEN [call |-> Returned(item), wire |-> <<>>]
    ELSE IF item.kind = "str"
    THEN IF StartsWith(item.s, Http) \/ StartsWith(item.s, Https)
         THEN LET got == create_file_from_url(item.s, isClosed, reply)
              IN  [call |-> got.call,
                   wire |-> IF got.sent THEN <<GetExchange(item.s, reply)>> ELSE <<>>]
         ELSE [call |-> create_file_from_path(item.s), wire |-> <<>>]
    ELSE [call |-> Raised(ValueError("Unsupported file item type")), wire |-> <<>>]

\* the loop body of `for item in files`, for the next item
NormalizeItem(reply) ==
    /\ pc = "normalize"
    /\ Len(prepared) < Len(FilesOrEmpty(files))
    /\ LET step == NormalizeOne(FilesOrEmpty(files)[Len(prepared) + 1], closed, reply)
       IN  /\ net' = net \o step.wire
           /\ IF step.call.raised
              THEN /\ outcome' = SendRaised(step.call.exc)
                   /\ pc' = "done"
                   /\ UNCHANGED prepared
              ELSE /\ prepared' = Append(prepared, step.call.value)
                   /\ UNCHANGED <<outcome, pc>>
    /\ UNCHANGED <<config, closed, message, files, results, openAtCall, mainVars>>

\* a variant that takes an empty message for a message
NothingToSendNoneOnly(m, p) == m = None /\ p = <<>>

\* `not message and not prepared`
NothingToSend(m, p) == ~Truthy(m) /\ p = <<>>

\* after the loop: `if not message and not prepared: raise ValueError`
CheckInput ==
    /\ pc = "normalize"
    /\ Len(prepared) = Len(FilesOrEmpty(files))
    /\ IF NothingToSend(message, prepared)
       THEN /\ outcome' = SendRaised(ValueError("Either message or files must be provided"))
            /\ pc' = "done"
       ELSE /\ pc' = "send"
            /\ UNCHANGED outcome
    /\ UNCHANGED <<config, closed, message, files, prepared, results, net, openAtCall,
                   mainVars>>

\* a variant that leaves the session open
CloseClientSkipped == FALSE

\* the `finally` of send: self._client.close(), whatever it raises swallowed
CloseClient == TRUE

\* a variant that repeats the message with every attachment
TextOfAlways(k, m) == m

\* a variant that puts the newest response first
PrependResult(rs, res) == <<res>> \o rs

\* the text the (k+1)-th _send_single call of a send is given: the message for
\* the first, None for the rest
TextOf(k, m) == IF k = 0 THEN m ELSE None

\* results.append(res)
AppendResult(rs, res) == Append(rs, res)

\* one _send_single call of the try block, and what follows it without another
\* request: the return, or the exception leaving send, through the finally
SendNext(reply) ==
    /\ pc = "send"
    /\ LET n == Len(prepared)
           k == Len(results)
           text == TextOf(k, message)
           file_item == IF n = 0 THEN NoFile ELSE prepared[k + 1]
           body == BodyText(reply, Len(Posts(net)) + 1)
           sent == _send_single(config, closed, text, file_item, reply,
                                IF reply.kind = "response" THEN body ELSE None)
       IN  /\ net' = net \o sent.wire
           /\ IF sent.call.raised
              THEN /\ outcome' = SendRaised(sent.call.exc)
                   /\ closed' = CloseClient
                   /\ pc' = "done"
                   /\ UNCHANGED results
              ELSE IF n <= 1
              THEN /\ outcome' = ReturnedDict(sent.call.value)
                   /\ closed' = CloseClient
                   /\ pc' = "done"
                   /\ UNCHANGED results
              ELSE /\ results' = AppendResult(results, sent.call.value)
                   /\ IF k + 1 = n
                      THEN /\ outcome' = ReturnedList(results')
                           /\ closed' = CloseClient
                           /\ pc' = "done"
                      ELSE UNCHANGED <<outcome, closed, pc>>
    /\ UNCHANGED <<config, message, files, prepared, openAtCall, mainVars>>

----------------------------------------------------------------------------
(* CLI entrypoint: configuration *)

EnvNames ==
    {"WEBEX_TOKEN", "WEBEX_DST", "WEBEX_FORMAT", "WEBEX_TIMEOUT", "WEBEX_INSECURE",
     "WEBEX_VERBOSE", "WEBEX_PROXY"}

\* an environment that defines nothing (None: the variable is not set)
EmptyEnv == [k \in EnvNames |-> None]

\* a variant that lets the file win over the process environment
LoadDotenvOverride(env, file) ==
    [k \in EnvNames |-> IF file[k] # None THEN file[k] ELSE env[k]]

\* load_dotenv(override=False): os.environ afterwards.  A variable the process
\* environment already has, empty or not, keeps its value.
LoadDotenv(env, file) ==
    [k \in EnvNames |-> IF env[k] # None THEN env[k] ELSE file[k]]

\* os.environ.get(name)
EnvGet(env, name) == env[name]

\* os.environ.get(name, default)
EnvGetDefault(env, name, default) == IF env[name] # None THEN env[name] ELSE default

UpperCase ==
    <<"A", "B", "C", "D", "E", "F", "G", "H", "I", "J", "K", "L", "M", "N", "O", "P",
      "Q", "R", "S", "T", "U", "V", "W", "X", "Y", "Z">>
LowerCase ==
    <<"a", "b", "c", "d", "e", "f", "g", "h", "i", "j", "k", "l", "m", "n", "o", "p",
      "q", "r", "s", "t", "u", "v", "w", "x", "y", "z">>

\* s.lower()
Lower(s) ==
    [i \in DOMAIN s |->
        IF \E j \in DOMAIN UpperCase : UpperCase[j] = s[i]
        THEN LowerCase[CHOOSE j \in DOMAIN UpperCase : UpperCase[j] = s[i]]
        ELSE s[i]]

Digits == <<"0", "1", "2", "3", "4", "5", "6", "7", "8", "9">>

RECURSIVE DecimalValue(_)
\* the value of a string of digits
DecimalValue(s) ==
    IF s = <<>> THEN 0
    ELSE LET last == s[Len(s)]
         IN  10 * DecimalValue(SubSeq(s, 1, Len(s) - 1))
                + (CHOOSE d \in DOMAIN Digits : Digits[d] = last) - 1

\* float(s), for the strings of the model: a whole number of seconds parses,
\* anything else that is no number raises ValueError
Float(s) ==
    IF s # <<>> /\ \A i \in DOMAIN s : \E d \in DOMAIN Digits : Digits[d] = s[i]
    THEN Returned(DecimalValue(s))
    ELSE Raised(ValueError("could not convert string to float"))

TruthyTokens == {<<"1">>, <<"t", "r", "u", "e">>, <<"y", "e", "s">>, <<"o", "n">>}

\* the `insecure` of main: the flag if given, else WEBEX_INSECURE if set
ResolveInsecure(args, env) ==
    IF args.insecure
    THEN TRUE
    ELSE IF EnvGet(env, "WEBEX_INSECURE") # None
    THEN Lower(EnvGet(env, "WEBEX_INSECURE")) \in TruthyTokens
    ELSE FALSE

\* a variant that compares the value as it is spelled
ResolveVerboseCaseSensitive(args, env) ==
    IF args.verbose
    THEN TRUE
    ELSE LET verbose_env == EnvGet(env, "WEBEX_VERBOSE")
         IN  Truthy(verbose_env) /\ verbose_env \in TruthyTokens

\* the `verbose` of main
ResolveVerbose(args, env) ==
    IF args.verbose
    THEN TRUE
    ELSE LET verbose_env == EnvGet(env, "WEBEX_VERBOSE")
         IN  Truthy(verbose_env) /\ Lower(verbose_env) \in TruthyTokens

\* WebexConfig(...): __post_init__ accepts the format or raises
NewWebexConfig(token, dst, msg_format, timeout, insecure, verbose, proxy) ==
    IF msg_format \notin {Text, Markdown}
    THEN Raised(ValueError("msg_format must be 'text' or 'markdown'"))
    ELSE Returned(WebexConfig(token, dst, msg_format, timeout, insecure, verbose, proxy))

\* the lines of main that build `cfg` from the command line and os.environ
BuildConfig(args, env) ==
    LET token == Or(args.token, EnvGet(env, "WEBEX_TOKEN"))
        dst == Or(args.dst, EnvGet(env, "WEBEX_DST"))
        msg_format ==
            Or(args.msg_format,
               EnvGetDefault(env, "WEBEX_FORMAT", <<"M", "a", "r", "k", "d", "o", "w", "n">>))
        timeout ==
            IF args.timeout # None
            THEN Float(args.timeout)
            ELSE Float(EnvGetDefault(env, "WEBEX_TIMEOUT", <<"1", "0">>))
        proxy == Or(args.proxy, EnvGet(env, "WEBEX_PROXY"))
    IN  IF timeout.raised
        THEN timeout
        ELSE NewWebexConfig(token, dst, Lower(msg_format), timeout.value,
                            ResolveInsecure(args, env), ResolveVerbose(args, env), proxy)

\* the dataclass defaults: the configuration before main has built one
DefaultConfig == WebexConfig(None, None, Markdown, DefaultTimeout, FALSE, FALSE, None)

----------------------------------------------------------------------------
(* CLI entrypoint: main, step by step *)

Running == [kind |-> "running"]
\* main returned an exit code
Exit(code) == [kind |-> "return", code |-> code]
\* an exception left main
Escaped(e) == [kind |-> "exception", exc |-> e]

\* the Namespace before the command line is parsed
NoArgv ==
    [token |-> None, dst |-> None, msg_format |-> None, timeout |-> None,
     insecure |-> FALSE, verbose |-> FALSE, proxy |-> None, message |-> None,
     file |-> <<>>]

sendVars == <<closed, message, files, prepared, results, net, outcome, openAtCall>>

\* _load_env_files()
LoadEnvFiles ==
    /\ pc = "main"
    /\ environ' = LoadDotenv(osenv, dotenv)
    /\ pc' = "main_config"
    /\ UNCHANGED <<config, sendVars, argv, osenv, dotenv, exit>>

\* main from _parse_cli to WebexConfig(...): outside any try, so what float()
\* or __post_init__ raises leaves main
ResolveConfig ==
    /\ pc = "main_config"
    /\ LET cfg == BuildConfig(argv, environ)
       IN  IF cfg.raised
           THEN /\ exit' = Escaped(cfg.exc)
                /\ pc' = "exited"
                /\ UNCHANGED config
           ELSE /\ config' = cfg.value
                /\ pc' = "main_input"
                /\ UNCHANGED exit
    /\ UNCHANGED <<sendVars, argv, osenv, dotenv, environ>>

\* `if not message and not files: return 2`
ValidateInput ==
    /\ pc = "main_input"
    /\ IF ~Truthy(argv.message) /\ argv.file = <<>>
       THEN /\ exit' = Exit(2)
            /\ pc' = "exited"
       ELSE /\ pc' = "main_client"
            /\ UNCHANGED exit
    /\ UNCHANGED <<config, sendVars, argv, osenv, dotenv, environ>>

\* Webex.__init__: the exception it raises, or None
WebexInit(cfg) ==
    IF ~Truthy(cfg.token) THEN Raised(ValueError("WEBEX token is required"))
    ELSE IF ~Truthy(cfg.dst) THEN Raised(ValueError("WEBEX dst is required"))
    ELSE Returned(cfg)

\* the exit code main's except clauses give an exception out of the try block
ExitCodeFor(e) ==
    IF e.type = "ValueError" THEN 2
    ELSE IF e.type = "RuntimeError" THEN 3
    ELSE 4

\* `client = Webex(cfg)` inside the try
CreateClient ==
    /\ pc = "main_client"
    /\ LET client == WebexInit(config)
       IN  IF client.raised
           THEN /\ exit' = Exit(ExitCodeFor(client.exc))
                /\ pc' = "exited"
           ELSE /\ pc' = "idle"
                /\ UNCHANGED exit
    /\ UNCHANGED <<config, sendVars, argv, osenv, dotenv, environ>>

\* `client.send(message=message, files=files)`
MainSend == CallSend(argv.message, argv.file)

\* send has returned or raised: `return 0`, or the except clause that matches
MainExit ==
    /\ pc = "done"
    /\ exit' = IF outcome.kind = "return" THEN Exit(0) ELSE Exit(ExitCodeFor(outcome.exc))
    /\ pc' = "exited"
    /\ UNCHANGED <<config, sendVars, argv, osenv, dotenv, environ>>

----------------------------------------------------------------------------
(* The command lines and environments main is run with: one configuration     *)
(* field at a time takes every combination of its three sources; of the       *)
(* others, --dst is on the command line, --token is there or is not, and      *)
(* nothing else is given.                                                     *)

CliToken == <<"cli-token">>
EnvToken == <<"env-token">>
FileToken == <<"file-token">>
CliProxy == <<"cli-proxy">>
EnvProxy == <<"env-proxy">>
FileProxy == <<"file-proxy">>

Fields == {"token", "dst", "msg_format", "timeout", "insecure", "verbose", "proxy"}

EnvName(f) ==
    CASE f = "token" -> "WEBEX_TOKEN"
      [] f = "dst" -> "WEBEX_DST"
      [] f = "msg_format" -> "WEBEX_FORMAT"
      [] f = "timeout" -> "WEBEX_TIMEOUT"
      [] f = "insecure" -> "WEBEX_INSECURE"
      [] f = "verbose" -> "WEBEX_VERBOSE"
      [] f = "proxy" -> "WEBEX_PROXY"

BoolStrings ==
    {None, <<>>, <<"Y", "e", "s">>, <<"o", "f", "f">>, <<"m", "a", "y", "b", "e">>}

\* what argparse can leave in the Namespace for the field
CliValues(f) ==
    CASE f = "token" -> {None, <<>>, CliToken}
      [] f = "dst" -> {None, <<>>, DstRoom}
      [] f = "msg_format" -> {None, Text, Markdown}
      [] f = "timeout" -> {None, <<"5">>}
      [] f = "insecure" -> BOOLEAN
      [] f = "verbose" -> BOOLEAN
      [] f = "proxy" -> {None, <<>>, CliProxy}

\* what the process environment can hold for the field (None: not set)
EnvValues(f) ==
    CASE f = "token" -> {None, <<>>, EnvToken}
      [] f = "dst" -> {None, <<>>, DstEmail}
      [] f = "msg_format" -> {None, <<>>, <<"T", "E", "X", "T">>, <<"h", "t", "m", "l">>}
      [] f = "timeout" -> {None, <<>>, <<"7">>, <<"a", "b", "c">>}
      [] f = "insecure" -> BoolStrings
      [] f = "verbose" -> BoolStrings
      [] f = "proxy" -> {None, <<>>, EnvProxy}

\* what the .env file can hold for the field (None: not defined)
FileValues(f) ==
    CASE f = "token" -> {None, <<>>, FileToken}
      [] f = "dst" -> {None, <<>>, DstRoomSpace}
      [] f = "msg_format" -> {None, <<>>, Text}
      [] f = "timeout" -> {None, <<"3">>}
      [] f = "insecure" -> {None, <<"o", "n">>, <<"0">>}
      [] f = "verbose" -> {None, <<"o", "n">>, <<"0">>}
      [] f = "proxy" -> {None, <<>>, FileProxy}

\* --file, repeated: paths and URLs
CliFileLists == ListsOver({Str(PathP), Str(PathQ), Str(UrlU)}, MaxFiles)

BaseArgv == [NoArgv EXCEPT !.token = CliToken, !.dst = DstRoom]

InitMain ==
    /\ \E f \in Fields :
          \E c \in CliValues(f), e \in EnvValues(f), d \in FileValues(f),
             t \in {CliToken, None}, m \in Messages, fl \in CliFileLists :
              /\ argv = [BaseArgv EXCEPT !.token = t, ![f] = c, !.message = m,
                                        !.file = fl]
              /\ osenv = [EmptyEnv EXCEPT ![EnvName(f)] = e]
              /\ dotenv = [EmptyEnv EXCEPT ![EnvName(f)] = d]
    /\ environ = osenv
    /\ exit = Running
    /\ config = DefaultConfig
    /\ closed = FALSE
    /\ pc = "main"
    /\ message = None
    /\ files = NoneFiles
    /\ prepared = <<>>
    /\ results = <<>>
    /\ net = <<>>
    /\ outcome = NoOutcome
    /\ openAtCall = TRUE

NextMain ==
    \/ LoadEnvFiles
    \/ ResolveConfig
    \/ ValidateInput
    \/ CreateClient
    \/ MainSend
    \/ pc = "normalize" /\ \E reply \in GetReplies : NormalizeItem(reply)
    \/ CheckInput
    \/ pc = "send" /\ \E reply \in PostReplies : SendNext(reply)
    \/ MainExit

SpecMain == InitMain /\ [][NextMain]_vars

----------------------------------------------------------------------------
(* A program that constructs one client and calls send on it, again and again *)

Init ==
    /\ config \in LibConfigs
    /\ closed = FALSE
    /\ pc = "idle"
    /\ message = None
    /\ files = NoneFiles
    /\ prepared = <<>>
    /\ results = <<>>
    /\ net = <<>>
    /\ outcome = NoOutcome
    /\ openAtCall = TRUE
    /\ argv = NoArgv
    /\ osenv = EmptyEnv
    /\ dotenv = EmptyEnv
    /\ environ = EmptyEnv
    /\ exit = Running

Next ==
    \/ pc = "idle" /\ \E m \in Messages, f \in FileLists : CallSend(m, f)
    \/ pc = "normalize" /\ \E reply \in GetReplies : NormalizeItem(reply)
    \/ CheckInput
    \/ pc = "send" /\ \E reply \in PostReplies : SendNext(reply)
    \/ TakeOutcome

Spec == Init /\ [][Next]_vars

----------------------------------------------------------------------------
(* Properties of Webex.send *)

\* the POST exchanges of the call
Sent == Posts(net)

\* the attachment loop is over: every item of the list has been resolved
Resolved == pc \in {"send", "done"} /\ Len(prepared) = Len(FilesOrEmpty(files))

HasMessageField(fields) == "text" \in DOMAIN fields \/ "markdown" \in DOMAIN fields

\* the request carries exactly the attachment f, as its one `files` part
CarriesOnly(request, f) ==
    /\ request.encoding = "multipart"
    /\ Len(request.files) = 1
    /\ request.files[1].name = "files"
    /\ request.files[1].content = f.blob
    /\ request.files[1].filename = Or(f.filename, <<"file">>)

\* the message is in the request, under the field the format names
CarriesMessage(request, m) ==
    IF config.msg_format = Text
    THEN "text" \in DOMAIN request.fields /\ request.fields.text = m
    ELSE "markdown" \in DOMAIN request.fields /\ request.fields.markdown = m

Succeeded(exchange) ==
    exchange.response.kind = "response" /\ exchange.response.status < 400

\* C1: with N >= 2 attachments, the requests issued so far are the first ones of
\* the batch, in attachment order: request 0 carries the message (if any) with
\* attachment 0, request i >= 1 carries attachment i alone and no message field;
\* and when send returns (every request succeeded) exactly N were issued.
C1_BatchOrder ==
    (Resolved /\ Len(prepared) >= 2) =>
        /\ Len(Sent) <= Len(prepared)
        /\ \A i \in DOMAIN Sent :
              /\ Sent[i].request.url = "https://webexapis.com/v1/messages"
              /\ CarriesOnly(Sent[i].request, prepared[i])
              /\ i = 1 /\ Truthy(message) => CarriesMessage(Sent[i].request, message)
              /\ (i > 1 \/ ~Truthy(message)) => ~HasMessageField(Sent[i].request.fields)
        /\ (pc = "done" /\ outcome.kind = "return") =>
              /\ Len(Sent) = Len(prepared)
              /\ \A i \in DOMAIN Sent : Succeeded(Sent[i])

C1_Witness ==
    /\ pc = "done" /\ outcome.kind = "return"
    /\ Len(prepared) = 3 /\ Len(Sent) = 3
    /\ Truthy(message)
    /\ prepared[1] # prepared[2] /\ prepared[2] # prepared[3]

\* the destination field of a request: the one the code selects for the
\* configured destination, and no other
TargetOnly(fields) ==
    /\ ("toPersonEmail" \in DOMAIN fields) # ("roomId" \in DOMAIN fields)
    /\ "toPersonEmail" \in DOMAIN fields => fields.toPersonEmail = config.dst
    /\ "roomId" \in DOMAIN fields => fields.roomId = config.dst

\* the request is one JSON request with the destination and the message only
JsonMessageOnly(request, m) ==
    /\ request.method = "POST"
    /\ request.encoding = "json"
    /\ request.files = <<>>
    /\ Cardinality(DOMAIN request.fields) = 2
    /\ TargetOnly(request.fields)
    /\ CarriesMessage(request, m)

\* C2 as stated: every send call with a non-empty message and no attachment
\* issues exactly one request, JSON-encoded, with the destination and the
\* message only.
C2_Original ==
    (pc = "done" /\ Truthy(message) /\ FilesOrEmpty(files) = <<>>) =>
        /\ Len(net) = 1
        /\ JsonMessageOnly(net[1].request, message)

\* C2 amended: every send call on a client whose session is still open, with a
\* non-empty message and no attachment, issues exactly one request,
\* JSON-encoded, with the destination and the message only.
C2_OneJsonRequest ==
    (pc = "done" /\ openAtCall /\ Truthy(message) /\ FilesOrEmpty(files) = <<>>) =>
        /\ Len(net) = 1
        /\ JsonMessageOnly(net[1].request, message)

C2_Witness ==
    /\ pc = "done" /\ openAtCall /\ message = Hi /\ files = <<>>
    /\ Len(net) = 1 /\ net[1].response.kind = "response"

\* the one POST of the call is multipart, holds the attachment f as its one
\* `files` part, the destination, and the message exactly when one was given
OneMultipartRequest(f) ==
    /\ Len(Sent) = 1
    /\ CarriesOnly(Sent[1].request, f)
    /\ TargetOnly(Sent[1].request.fields)
    /\ IF Truthy(message)
       THEN /\ CarriesMessage(Sent[1].request, message)
            /\ Cardinality(DOMAIN Sent[1].request.fields) = 2
       ELSE Cardinality(DOMAIN Sent[1].request.fields) = 1

\* C3 as stated: every send call with exactly one attachment issues exactly one
\* request, multipart, with that attachment, the destination and the message
\* (if given).
C3_Original ==
    (pc = "done" /\ Resolved /\ Len(prepared) = 1) => OneMultipartRequest(prepared[1])

\* C3 amended: every send call on a client whose session is still open, with
\* exactly one attachment whose content is not empty, issues exactly one
\* request to the messages endpoint, multipart, with exactly one `files` part
\* holding that attachment, the destination and the message (if given).
C3_OneMultipartRequest ==
    (pc = "done" /\ Resolved /\ openAtCall /\ Len(prepared) = 1
        /\ prepared[1].blob # <<>>) => OneMultipartRequest(prepared[1])

C3_Witness ==
    /\ pc = "done" /\ Resolved /\ openAtCall /\ Len(prepared) = 1
    /\ prepared[1].blob # <<>> /\ ~Truthy(message)
    /\ outcome.kind = "return"

\* `s` contains whitespace
HasWhitespace(s) == \E i \in DOMAIN s : s[i] \in {" ", "\t", "\n", "\r"}

\* C4 as stated: in every request the destination is under toPersonEmail iff it
\* contains "@" and no whitespace, under roomId otherwise; exactly one of the
\* two is present.
C4_Original ==
    \A i \in DOMAIN Sent :
        LET fields == Sent[i].request.fields
        IN  /\ TargetOnly(fields)
            /\ "toPersonEmail" \in DOMAIN fields
                   <=> (HasChar(config.dst, "@") /\ ~HasWhitespace(config.dst))

\* C4 amended: in every request of every batch the destination is under
\* toPersonEmail iff the configured destination contains "@" (whitespace or
\* not), and under roomId otherwise; exactly one of the two fields is present,
\* and the choice is the same for all requests of a batch.
C4_TargetField ==
    /\ \A i \in DOMAIN Sent :
          LET fields == Sent[i].request.fields
          IN  /\ TargetOnly(fields)
              /\ "toPersonEmail" \in DOMAIN fields <=> HasChar(config.dst, "@")
    /\ \A i, j \in DOMAIN Sent :
          ("roomId" \in DOMAIN Sent[i].request.fields)
              <=> ("roomId" \in DOMAIN Sent[j].request.fields)

C4_Witness ==
    /\ pc = "done" /\ Len(Sent) = 2
    /\ config.dst = DstAtSpace
    /\ "toPersonEmail" \in DOMAIN Sent[2].request.fields

\* C5: a request that carries message text has it under `text` when the format
\* is text and under `markdown` when it is markdown; no request has both
\* fields, and a request without message text has neither.
C5_MessageField ==
    \A i \in DOMAIN Sent :
        LET fields == Sent[i].request.fields
            carries == i = 1 /\ Truthy(message)
        IN  /\ ~("text" \in DOMAIN fields /\ "markdown" \in DOMAIN fields)
            /\ (carries /\ config.msg_format = Text) =>
                  "text" \in DOMAIN fields /\ fields.text = message
            /\ (carries /\ config.msg_format = Markdown) =>
                  "markdown" \in DOMAIN fields /\ fields.markdown = message
            /\ ~carries => ~HasMessageField(fields)

C5_Witness ==
    /\ pc = "done" /\ Len(Sent) = 2
    /\ config.msg_format = Text
    /\ "text" \in DOMAIN Sent[1].request.fields
    /\ ~HasMessageField(Sent[2].request.fields)

\* C6: a send call whose message is empty or absent and whose attachment list
\* is empty or absent fails with a ValueError, and puts nothing on the network
\* before it fails.
C6_EmptyInput ==
    (pc # "idle" /\ ~Truthy(message) /\ FilesOrEmpty(files) = <<>>) =>
        /\ net = <<>>
        /\ pc # "send"
        /\ pc = "done" => outcome.kind = "raise" /\ outcome.exc.type = "ValueError"

C6_Witness ==
    /\ pc = "done" /\ message = <<>> /\ files = NoneFiles
    /\ outcome.kind = "raise" /\ net = <<>>

\* the decoded form of the response of an exchange
Decoded(exchange) ==
    DecodeResponse(exchange.response.status, exchange.response.text,
                   exchange.response.json)

\* C7: a send that returns gives back one response object, not a sequence,
\* when exactly one request was issued; otherwise a sequence as long as the
\* number of requests, its k-th element the response to the k-th request.
C7_ResultShape ==
    (pc = "done" /\ outcome.kind = "return") =>
        IF Len(Sent) = 1
        THEN outcome.shape = "dict" /\ outcome.value = Decoded(Sent[1])
        ELSE /\ outcome.shape = "list"
             /\ Len(outcome.value) = Len(Sent)
             /\ \A k \in DOMAIN Sent : outcome.value[k] = Decoded(Sent[k])

C7_Witness ==
    /\ pc = "done" /\ outcome.kind = "return" /\ outcome.shape = "list"
    /\ Len(Sent) = 3
    /\ outcome.value[1] # outcome.value[2]

\* C8: a response with status 400 or more to any request of a batch makes send
\* fail with an error that carries that status and that body; send never
\* returns with such a response among its requests.
C8_ErrorStatus ==
    \A i \in DOMAIN Sent :
        (Sent[i].response.kind = "response" /\ Sent[i].response.status >= 400) =>
            /\ i = Len(Sent)
            /\ pc = "done"
            /\ outcome.kind = "raise"
            /\ outcome.exc.type = "RuntimeError"
            /\ "status" \in DOMAIN outcome.exc
            /\ outcome.exc.status = Sent[i].response.status
            /\ outcome.exc.body = Sent[i].response.text

C8_Witness ==
    /\ pc = "done" /\ Len(Sent) = 3
    /\ Sent[3].response.kind = "response" /\ Sent[3].response.status = 400
    /\ outcome.kind = "raise"

\* C9: in a multi-attachment batch, once request i has failed (an error status,
\* or no response) send has failed with an error and nothing else: request i is
\* the last thing on the network, and the responses to the requests before it
\* are not handed to the caller.
C9_FailFast ==
    \A i \in DOMAIN Sent :
        (Len(prepared) >= 2 /\ ~Succeeded(Sent[i])) =>
            /\ i = Len(Sent)
            /\ net[Len(net)] = Sent[i]
            /\ pc = "done"
            /\ outcome.kind = "raise"
            /\ outcome.exc.type = "RuntimeError"
            /\ DOMAIN outcome = {"kind", "exc"}
            /\ DOMAIN outcome.exc \subseteq {"type", "msg", "status", "body"}
            /\ Sent[i].response.kind = "response" =>
                  /\ outcome.exc.status = Sent[i].response.status
                  /\ outcome.exc.body = Sent[i].response.text

C9_Witness ==
    /\ pc = "done" /\ Len(prepared) = 3 /\ Len(Sent) = 2
    /\ Sent[2].response.kind = "none"
    /\ outcome.kind = "raise"
    /\ Len(results) = 1

----------------------------------------------------------------------------
(* Properties of the configuration main builds *)

\* main has built its configuration from the command line and os.environ
Configured == pc \notin {"main", "main_config"} /\ exit.kind # "exception"

\* an unset value and an empty one both leave a field without a value
Effective(x) == IF Truthy(x) THEN x ELSE None

\* the value of the first source that defines the field non-empty
FirstNonEmpty(cli, env, file, default) ==
    IF Truthy(cli) THEN cli
    ELSE IF Truthy(env) THEN env
    ELSE IF Truthy(file) THEN file
    ELSE default

\* the value of the command line if non-empty, else of the first of the
\* environment and the .env file that defines the field at all
FirstGivenOrSet(cli, env, file, default) ==
    IF Truthy(cli) THEN cli
    ELSE IF env # None THEN env
    ELSE IF file # None THEN file
    ELSE default

\* the three sources of a field, picked by one of the two rules above
PickedBy(Rule(_, _, _, _), f, default) ==
    Rule(argv[f], osenv[EnvName(f)], dotenv[EnvName(f)], default)

\* the configuration is the one the rule picks, field by field
ConfigFollows(Rule(_, _, _, _)) ==
    /\ Effective(config.token) = Effective(PickedBy(Rule, "token", None))
    /\ Effective(config.dst) = Effective(PickedBy(Rule, "dst", None))
    /\ Effective(config.proxy) = Effective(PickedBy(Rule, "proxy", None))
    /\ config.msg_format = Lower(PickedBy(Rule, "msg_format", Markdown))
    /\ Returned(config.timeout) = Float(PickedBy(Rule, "timeout", <<"1", "0">>))
    /\ config.insecure =
          (argv.insecure \/ Lower(Rule(None, osenv["WEBEX_INSECURE"],
                                       dotenv["WEBEX_INSECURE"], <<>>)) \in TruthyTokens)
    /\ config.verbose =
          (argv.verbose \/ Lower(Rule(None, osenv["WEBEX_VERBOSE"],
                                      dotenv["WEBEX_VERBOSE"], <<>>)) \in TruthyTokens)

\* C10 as stated: each field of the configuration has the value of the
\* highest-precedence source that defines it non-empty, in the order CLI flag,
\* process environment, .env file, default; an absent or empty source is
\* skipped.
C10_Original == Configured => ConfigFollows(FirstNonEmpty)

\* C10 amended: each field of the configuration main builds has the value of
\* the CLI flag when that is given non-empty; otherwise of the environment
\* variable when it is set, even to the empty string; otherwise of the .env
\* file when it defines the variable; otherwise the default.  An empty string
\* is skipped on the command line only.
C10_Precedence == Configured => ConfigFollows(FirstGivenOrSet)

C10_Witness ==
    /\ pc = "exited" /\ exit = Exit(0)
    /\ argv.token = None
    /\ osenv["WEBEX_TOKEN"] = EnvToken
    /\ dotenv["WEBEX_TOKEN"] = FileToken
    /\ config.token = EnvToken
    /\ Len(net) = 1 /\ net[1].request.authorization = <<"Bearer ">> \o EnvToken

----------------------------------------------------------------------------
(* Properties of main's exit *)

\* none of the three sources gives the field a non-empty value
Unresolved(f) == ~Truthy(PickedBy(FirstNonEmpty, f, None))

\* C11: when the token or the destination is unresolved after the command
\* line, the environment and the .env file, main returns exit code 2, and at
\* no point is an HTTP request (GET or POST) on the network.
C11_MissingCredentials ==
    (Unresolved("token") \/ Unresolved("dst")) =>
        /\ net = <<>>
        /\ pc = "exited" => exit = Exit(2)

\* C12: when a request of main's send has failed, the POST of a message or the
\* GET of a URL attachment, by a status of 400 or more or by a transport
\* failure, main returns exit code 3.
C12_NetworkErrorsExit3 ==
    (pc = "exited" /\ \E i \in DOMAIN net : ~Succeeded(net[i])) => exit = Exit(3)

\* the spellings of the boolean tokens among the values of the model
SpelledTrue == {<<"Y", "e", "s">>, <<"o", "n">>}
SpelledFalse == {<<"o", "f", "f">>, <<"0">>}

\* the first level whose value is a recognised token decides, else false
FallsThrough(env, file) ==
    IF env \in SpelledTrue \cup SpelledFalse THEN env \in SpelledTrue
    ELSE file \in SpelledTrue

\* the environment variable decides when it is set at all, else the .env file
FirstSetDecides(env, file) ==
    IF env # None THEN env \in SpelledTrue ELSE file \in SpelledTrue

\* without their flags, both boolean fields follow the rule
BooleansFollow(Rule(_, _)) ==
    /\ ~argv.insecure =>
          config.insecure = Rule(osenv["WEBEX_INSECURE"], dotenv["WEBEX_INSECURE"])
    /\ ~argv.verbose =>
          config.verbose = Rule(osenv["WEBEX_VERBOSE"], dotenv["WEBEX_VERBOSE"])

\* C13 as stated: without a CLI flag, a boolean field is true for a truthy
\* token and false for a falsy token at the first level that holds one; any
\* other string is as if not set, and the next level (environment, .env file,
\* default false) decides.
C13_Original == Configured => BooleansFollow(FallsThrough)

\* C13 amended: without a CLI flag, a boolean field takes the value of the
\* environment variable when it is set, to whatever string, else of the .env
\* file when it defines the variable; the field is true when that value is,
\* in any case, one of 1, true, yes, on, and false for every other value
\* (0, false, no, off, an unrecognised string, the empty string) and when
\* neither defines it.  An unrecognised environment value hides the .env value.
C13_BooleanTokens == Configured => BooleansFollow(FirstSetDecides)

C13_Witness ==
    /\ pc = "exited" /\ exit = Exit(0)
    /\ ~argv.verbose
    /\ osenv["WEBEX_VERBOSE"] = <<"Y", "e", "s">>
    /\ dotenv["WEBEX_VERBOSE"] = <<"0">>
    /\ config.verbose

\* C16: main ends by returning one of the exit codes 0, 2, 3, 4: no exception
\* leaves it, whatever the command line, the environment and the .env file
\* hold.
C16_ExitCodes ==
    pc = "exited" => exit \in {Exit(0), Exit(2), Exit(3), Exit(4)}

----------------------------------------------------------------------------
(* Properties of the client's session *)

\* C14: when a send call has ended, by a return or by any error, the client's
\* HTTP session has been closed.
C14_ClosedAtEnd == pc = "done" => closed

\* the index of the first attachment with empty content, 0 when there is none
FirstEmpty ==
    LET empty == {i \in DOMAIN prepared : prepared[i].blob = <<>>}
    IN  IF empty = {} THEN 0 ELSE CHOOSE i \in empty : \A j \in empty : i <= j

\* the requests before the first attachment with empty content go out as for
\* any batch, then send fails, with nothing sent for that attachment or a
\* later one
StopsAtFirstEmpty ==
    /\ Len(Sent) < FirstEmpty
    /\ \A k \in DOMAIN Sent : CarriesOnly(Sent[k].request, prepared[k])
    /\ pc = "done" =>
          /\ outcome.kind = "raise"
          /\ (\A k \in DOMAIN Sent : Succeeded(Sent[k])) =>
                /\ Len(Sent) = FirstEmpty - 1
                /\ outcome.exc = RuntimeError("File has no content")

\* C15 as stated: an attachment with empty content (create_file_from_bytes
\* makes one without complaint) is rejected at send time only: in every send
\* whose i-th attachment is the first with empty content, the requests before
\* it are issued, then send fails, and nothing is sent for attachment i or
\* after.
C15_Original == (Resolved /\ FirstEmpty > 0) => StopsAtFirstEmpty

\* C15 amended: the same, for a send call on a client whose session is still
\* open when the call begins.
C15_EmptyContent == (Resolved /\ openAtCall /\ FirstEmpty > 0) => StopsAtFirstEmpty

C15_Witness ==
    /\ pc = "done" /\ openAtCall
    /\ Len(prepared) = 3 /\ FirstEmpty = 3 /\ prepared[3] = FileEmpty
    /\ Len(Sent) = 2
    /\ outcome = SendRaised(RuntimeError("File has no content"))

\* the item cannot be resolved: it is no File and no str, or it names a local
\* file that does not exist
Unresolvable(item) ==
    \/ item.kind = "int"
    \/ /\ item.kind = "str"
       /\ ~(StartsWith(item.s, Http) \/ StartsWith(item.s, Https))
       /\ item.s \notin ExistingPaths

IsGet(x) == x.request.method = "GET"

\* the URL items of the attachment list, in list order
UrlItems ==
    SelectSeq(FilesOrEmpty(files),
              LAMBDA item : item.kind = "str"
                  /\ (StartsWith(item.s, Http) \/ StartsWith(item.s, Https)))

\* C17: every POST of a send call comes after all the attachments of the call
\* have been resolved; the URL attachments are fetched in list order, before
\* any POST; and a call with an attachment that does not resolve (a missing
\* file, an item of an unsupported type, a failed fetch) fails without a
\* single POST.
C17_ResolveFirst ==
    /\ Sent # <<>> => Resolved
    /\ \A i, j \in DOMAIN net : (i < j /\ ~IsGet(net[i])) => ~IsGet(net[j])
    /\ LET gets == SelectSeq(net, IsGet)
       IN  /\ Len(gets) <= Len(UrlItems)
           /\ \A k \in DOMAIN gets : gets[k].request.url = UrlItems[k].s
    /\ (\/ \E i \in DOMAIN FilesOrEmpty(files) : Unresolvable(FilesOrEmpty(files)[i])
        \/ \E i \in DOMAIN net : IsGet(net[i]) /\ ~Succeeded(net[i])) =>
          /\ Sent = <<>>
          /\ pc # "send"
          /\ pc = "done" => outcome.kind = "raise"

C17_Witness ==
    /\ pc = "done" /\ outcome.kind = "raise"
    /\ files = <<FileA, Str(UrlU), Str(PathQ)>>
    /\ Len(prepared) = 2
    /\ Len(net) = 1 /\ IsGet(net[1]) /\ Succeeded(net[1])
    /\ Sent = <<>>

\* the call got past the attachment loop and the empty-input check
PassedValidation == Resolved /\ (Truthy(message) \/ prepared # <<>>)

\* C18: a send call that got past validation and attachment resolution leaves
\* the session closed when it ends; a closed session stays closed; a call made
\* on a closed session puts no request on the network and ends in an error;
\* so the POSTs of an instance all belong to one call.
C18_SingleUse ==
    /\ [](/\ (pc = "done" /\ PassedValidation) => closed
          /\ ~openAtCall => (closed /\ net = <<>>)
          /\ (~openAtCall /\ pc = "done") => outcome.kind = "raise"
          /\ Sent # <<>> => openAtCall)
    /\ [][closed => closed']_vars

C18_Witness ==
    /\ pc = "done" /\ ~openAtCall /\ closed
    /\ message = Hi /\ files = <<Str(UrlU), FileA>>
    /\ net = <<>>
    /\ outcome = SendRaised(ClientClosedError)

====
